---- MODULE Spec2Model ----
(***************************************************************************)
(* Playback-source synchronisation of the mood visualiser.                 *)
(*                                                                         *)
(*   Spec       App.tsx (source controller, queue, Spotify poll) together  *)
(*              with components/MediaPlayer.tsx (local progress, the       *)
(*              optimistic playing flag, the two progress timers).         *)
(*   SpecGrace  the Spotify-only session of the same components with the   *)
(*              wall clock, for the play/pause grace window.               *)
(*   SpecScene  the p5 sketch of the Scene variant that blends its         *)
(*              smoothed progress toward the progressMs prop.              *)
(*                                                                         *)
(* All times are whole milliseconds.  React state is modelled after the    *)
(* commit: every action is an event handler or timer callback followed by  *)
(* the re-render and the effects it triggers, run until nothing changes.   *)
(***************************************************************************)
EXTENDS Integers, Sequences, FiniteSets, Bags, TLC

VARIABLES
    \* ---- App.tsx
    token,                \* TRUE once an access token is stored (null before)
    activeSource,         \* spotifyState.activeSource
    currentTrack,         \* spotifyState.currentTrack  (0 = null)
    youtubeTrack,         \* spotifyState.youtubeTrack  (0 = null)
    progress_ms,          \* spotifyState.progress_ms
    isPlaying,            \* spotifyState.isPlaying
    queue,                \* spotifyState.queue
    features,             \* spotifyState.features
    currentTrackKeyRef,   \* currentTrackKeyRef.current (0 = null)
    pollsInFlight,        \* the pollSpotify calls awaiting fetchCurrentTrack
    featureFetches,       \* the pollSpotify calls awaiting fetchAudioFeatures
    \* ---- components/MediaPlayer.tsx
    mounted,              \* the player (and the App around it) is mounted
    localProgress,
    optimisticIsPlaying,
    isYoutubePlaying,
    lastInteractionTime,  \* lastInteractionTime.current
    progressIntervalRef,  \* 0 = null, else the youtubeTrack its callback closed over
    spotifyInterval,      \* the interval of the Spotify progress effect is set
    \* ---- environment and observation
    now,                  \* Date.now() relative to page load
    op,                   \* the handler or callback that ran last
    cmd,                  \* the Spotify Web API command that handler issued
    \* ---- Scene sketch (blend variant)
    stateRef,             \* stateRef.current: the latest props
    smoothProgress,
    prevSmooth,           \* smoothProgress as the last draw found it
    \* ---- the visual side: App.mood and the Scene sketches
    sketch,               \* the Scene variant that is mounted
    frameCount,           \* p.frameCount: the draws made so far
    mood,                 \* App.tsx mood (MoodState), passed down as a prop
    tempo,                \* the tempo prop (0 when there is none)
    blend,                \* part_004 sketch: curEnergy .. lastBeatIndex
    phase,                \* part_003 sketch: smoothProgressMs .. kick
    live,                 \* Scene.tsx sketch: simulatedBeat .. timeOffset
    input,                \* what the last Scene.tsx draw read
    \* ---- the earlier App (demo mode, mood from the audio features)
    isDemoMode,
    spotifyState,         \* its spotifyState: isConnected .. isPlaying
    fetches,              \* its fetchData calls that await an answer
    \* ---- AudioReactiveBlob of the three.js Scene
    materialType,         \* the useMemo value of the last render
    \* ---- the microphone: App.isAudioActive and services/audioService
    isAudioActive,        \* App state, the ON/OFF of the Sidebar button
    micStream,            \* audioManager.stream (0 = null)
    micSource,            \* audioManager.source (0 = null)
    liveStreams,          \* the captured streams whose tracks are not stopped
    micRequests,          \* the getUserMedia calls that are still pending
    micStarted,           \* the getUserMedia calls so far
    audioContext          \* audioManager.audioContext is created (FALSE = null)

appVars    == <<token, activeSource, currentTrack, youtubeTrack, progress_ms,
                isPlaying, queue, features, currentTrackKeyRef, pollsInFlight,
                featureFetches>>
playerVars == <<mounted, localProgress, optimisticIsPlaying, isYoutubePlaying,
                lastInteractionTime, progressIntervalRef, spotifyInterval>>
sceneVars  == <<stateRef, smoothProgress, prevSmooth>>
demoVars   == <<isDemoMode, spotifyState, fetches, materialType>>
micVars    == <<isAudioActive, micStream, micSource, liveStreams, micRequests,
                micStarted, audioContext>>
visualVars == <<sketch, frameCount, mood, tempo, blend, phase, live, input,
                demoVars, micVars>>
vars       == <<appVars, playerVars, sceneVars, visualVars, now, op, cmd>>

----------------------------------------------------------------------------
\* Bounds of the model

NumSpotifyTracks  == 1
NumCatalogTracks  == 4
MaxFeatureFetches == 1
NumYoutubeTracks  == 2
MaxPollsInFlight  == 2
MaxMicStarts      == 4
MaxQueue          == 2
MaxNow            == 3
MaxFrames         == 3

\* Program constants

TickMs                  == 1000
SnapThresholdMs         == 2000
DefaultYoutubeDuration  == 180000
GraceWindowMs           == 2000

----------------------------------------------------------------------------
\* Input data: the tracks the services can return

SpotifyTracks == 1..NumSpotifyTracks
YoutubeTracks == 1..NumYoutubeTracks
Platforms     == {"SPOTIFY", "YOUTUBE"}

TracksOf(type) == IF type = "SPOTIFY" THEN SpotifyTracks ELSE YoutubeTracks

\* SpotifyTrack.duration_ms of track t, as the Web API reports it: every
\* fourth track of the catalogue comes with a duration of 0
SpotifyDurationMs(t) == IF t % 4 = 0 THEN 0 ELSE ((t % 2) + 2) * 1000

\* youtubeTrack?.duration_ms of video v: 0 stands for undefined, with no video
YoutubeTrackDurationMs(v) == IF v = 0 THEN 0 ELSE (v + 1) * 1000

Abs(x) == IF x < 0 THEN -x ELSE x

\* The catalogue the poll specification draws from.  Strings are sequences of
\* char codes.  Of every four tracks the first two have an id and, like the
\* third, the same title and artist; the third and fourth come without an id
\* (local files), the fourth without an artist as well.
CatalogTracks == 1..NumCatalogTracks

Nocturne   == <<78, 111, 99, 116, 117, 114, 110, 101>>
Intermezzo == <<73, 110, 116, 101, 114, 109, 101, 122, 122, 111>>
Chopin     == <<67, 104, 111, 112, 105, 110>>
Dash       == <<45>>
Undefined  == <<117, 110, 100, 101, 102, 105, 110, 101, 100>>

\* track.id ("" when the track has none): "t" and a digit
TrackId(t) == IF t % 4 \in {1, 2} THEN <<116, 48 + t>> ELSE <<>>

\* track.name
TrackName(t) == IF t % 4 = 0 THEN Intermezzo ELSE Nocturne

\* track.artists: the names, in order
TrackArtists(t) == IF t % 4 = 0 THEN <<>> ELSE <<Chopin>>

\* currentTrackKeyRef.current = null
NullKey == <<>>

\* track.id || `${track.name}-${track.artists[0]?.name}`
TrackKey(t) ==
    IF TrackId(t) # <<>> THEN TrackId(t)
    ELSE TrackName(t) \o Dash \o
         (IF TrackArtists(t) # <<>> THEN TrackArtists(t)[1] ELSE Undefined)

\* progress values a poll of track t can report: its start and its end
PollProgress(t) == {0, SpotifyDurationMs(t)}

\* Date.now() when the page was loaded: any value beyond the 2000 ms window
PageLoadTime == 10 * TickMs

----------------------------------------------------------------------------
\* The values one render of App and MediaPlayer sees

Cur == [token |-> token, activeSource |-> activeSource,
        currentTrack |-> currentTrack, youtubeTrack |-> youtubeTrack,
        progress_ms |-> progress_ms, isPlaying |-> isPlaying, queue |-> queue,
        features |-> features, featureFetches |-> featureFetches,
        currentTrackKeyRef |-> currentTrackKeyRef,
        pollsInFlight |-> pollsInFlight,
        localProgress |-> localProgress,
        optimisticIsPlaying |-> optimisticIsPlaying,
        isYoutubePlaying |-> isYoutubePlaying,
        lastInteractionTime |-> lastInteractionTime,
        progressIntervalRef |-> progressIntervalRef,
        spotifyInterval |-> spotifyInterval]

Install(s) ==
    /\ token' = s.token
    /\ activeSource' = s.activeSource
    /\ currentTrack' = s.currentTrack
    /\ youtubeTrack' = s.youtubeTrack
    /\ progress_ms' = s.progress_ms
    /\ isPlaying' = s.isPlaying
    /\ queue' = s.queue
    /\ features' = s.features
    /\ featureFetches' = s.featureFetches
    /\ currentTrackKeyRef' = s.currentTrackKeyRef
    /\ pollsInFlight' = s.pollsInFlight
    /\ localProgress' = s.localProgress
    /\ optimisticIsPlaying' = s.optimisticIsPlaying
    /\ isYoutubePlaying' = s.isYoutubePlaying
    /\ lastInteractionTime' = s.lastInteractionTime
    /\ progressIntervalRef' = s.progressIntervalRef
    /\ spotifyInterval' = s.spotifyInterval

----------------------------------------------------------------------------
\* MediaPlayer.tsx effects.  r is the render the effect closes over, s the
\* state its setState calls and ref writes build up.

\* "Sync with parent playing state": runs when the isPlaying prop changed
SyncPlayingEffect(r, s, isPlayingChanged) ==
    IF isPlayingChanged THEN [s EXCEPT !.optimisticIsPlaying = r.isPlaying] ELSE s

\* "Handle YouTube playback state"
YoutubePlaybackEffect(r, s) ==
    IF r.activeSource = "YOUTUBE" /\ r.youtubeTrack # 0
    THEN IF r.isPlaying /\ ~r.isYoutubePlaying
         THEN [s EXCEPT !.isYoutubePlaying = TRUE,
                        !.optimisticIsPlaying = TRUE,
                        !.progressIntervalRef = r.youtubeTrack]
         ELSE IF ~r.isPlaying /\ r.isYoutubePlaying
         THEN [s EXCEPT !.isYoutubePlaying = FALSE,
                        !.optimisticIsPlaying = FALSE,
                        !.progressIntervalRef = 0]
         ELSE s
    ELSE s

\* "Spotify progress handling": snap, then (re)create the 1 s interval; the
\* cleanup of the previous run clears the interval it had set
SpotifyProgressEffect(r, s) ==
    IF r.activeSource = "SPOTIFY"
    THEN [s EXCEPT !.localProgress =
                       IF Abs(r.localProgress - r.progress_ms) > SnapThresholdMs
                       THEN r.progress_ms ELSE @,
                   !.spotifyInterval = r.optimisticIsPlaying]
    ELSE [s EXCEPT !.spotifyInterval = FALSE]

\* one commit: the effects of a render, in declaration order
EffectsPass(r, isPlayingChanged) ==
    SpotifyProgressEffect(r,
        YoutubePlaybackEffect(r, SyncPlayingEffect(r, r, isPlayingChanged)))

\* the re-renders that follow until no effect changes anything
Commit(r, isPlayingChanged) ==
    EffectsPass(EffectsPass(EffectsPass(r, isPlayingChanged), FALSE), FALSE)

\* a handler that left the state s1 behind, issued command c, and the
\* re-render that follows it
Step(name, c, s1) ==
    /\ Install(Commit(s1, s1.isPlaying # isPlaying))
    /\ op' = name
    /\ cmd' = c

----------------------------------------------------------------------------
\* App.tsx handlers, as functions of the previous spotifyState

\* QueueItem {platform, youtubeTrack | spotifyTrack}: the track by its id
QueueItem(type, it) == [platform |-> type, id |-> it]

\* handleAddToQueue, the setSpotifyState updater
handleAddToQueue(prev, type, items, isArray) ==
    LET newItems == [i \in 1..Len(items) |-> QueueItem(type, items[i])]
        newQueue == prev.queue \o newItems
    IN  IF prev.activeSource = "YOUTUBE" /\ prev.youtubeTrack = 0
           /\ type = "YOUTUBE" /\ ~isArray
        THEN [prev EXCEPT !.youtubeTrack = items[1], !.isPlaying = TRUE,
                          !.queue = newQueue]
        ELSE [prev EXCEPT !.queue = newQueue]

\* prev.queue.find(...): index of the first YOUTUBE item whose track id is not
\* the active one's, 0 when there is none
FindNextYt(q, activeId) ==
    LET hits == {i \in 1..Len(q) : q[i].platform = "YOUTUBE" /\ q[i].id # activeId}
    IN  IF hits = {} THEN 0 ELSE CHOOSE i \in hits : \A j \in hits : i <= j

\* prev.queue.filter(q => q !== nextYt): every add creates fresh objects, so
\* exactly the found entry goes
RemoveAt(q, i) == [j \in 1..(Len(q) - 1) |-> IF j < i THEN q[j] ELSE q[j + 1]]

\* handleYoutubeEnd with the idle branch dropping the track that ended
handleYoutubeEndClearing(prev) ==
    LET nextYt == FindNextYt(prev.queue, prev.youtubeTrack)
    IN  IF nextYt # 0
        THEN [prev EXCEPT !.youtubeTrack = prev.queue[nextYt].id,
                          !.queue = RemoveAt(prev.queue, nextYt),
                          !.isPlaying = TRUE]
        ELSE [prev EXCEPT !.isPlaying = FALSE, !.youtubeTrack = 0]

\* handleYoutubeEnd, the setSpotifyState updater
handleYoutubeEnd(prev) ==
    LET nextYt == FindNextYt(prev.queue, prev.youtubeTrack)
    IN  IF nextYt # 0
        THEN [prev EXCEPT !.youtubeTrack = prev.queue[nextYt].id,
                          !.queue = RemoveAt(prev.queue, nextYt),
                          !.isPlaying = TRUE]
        ELSE [prev EXCEPT !.isPlaying = FALSE]

\* handlePlayNow, YOUTUBE branch
handlePlayNowYoutube(prev, item) ==
    [prev EXCEPT !.activeSource = "YOUTUBE", !.youtubeTrack = item,
                 !.isPlaying = TRUE, !.progress_ms = 0]

\* handlePlatformChange, the setSpotifyState updater
handlePlatformChange(prev, platform) ==
    [prev EXCEPT !.activeSource = platform, !.isPlaying = FALSE]

\* ---- services/spotifyService.ts

\* what the currently-playing request can come back with: a network error, a
\* status (204, or one above 299), a body without item, or a body with the
\* item, progress_ms and is_playing
FetchResponses(tracks) ==
    {[kind |-> k, track |-> 0, progress_ms |-> 0, is_playing |-> FALSE] :
        k \in {"error", "status204", "status401", "noItem"}}
    \cup UNION {{[kind |-> "item", track |-> t, progress_ms |-> p,
                  is_playing |-> b] : p \in PollProgress(t), b \in BOOLEAN} :
                t \in tracks}

\* the request itself failed: it threw, or the status is not 2xx
FetchFailed(response) == response.kind \in {"error", "status401"}

\* fetchCurrentTrack: <<track, progress_ms, is_playing>>, track 0 for null
fetchCurrentTrack(response) ==
    IF response.kind = "item"
    THEN <<response.track, response.progress_ms, response.is_playing>>
    ELSE <<0, 0, FALSE>>

\* spotifyState.features: null, the JSON of the audio-features endpoint for a
\* track id, or the estimate computed from a seed
NullFeatures == [source |-> "null", isEstimated |-> FALSE, value |-> <<>>]

AudioFeaturesResponses == {"ok", "notOk", "error"}

\* fetchAudioFeatures(token, trackId)
fetchAudioFeatures(response, trackId) ==
    IF response = "ok"
    THEN [source |-> "spotify", isEstimated |-> FALSE, value |-> trackId]
    ELSE NullFeatures

----------------------------------------------------------------------------
\* ---- App.tsx: generateEstimatedFeatures

\* hash |= 0 on a value given as two unsigned 16-bit halves
ToInt32(hi, lo) ==
    IF hi >= 32768 THEN (hi - 65536) * 65536 + lo ELSE hi * 65536 + lo

\* one round of the loop: hash = ((hash << 5) - hash) + charCode; hash |= 0
HashStep(hash, charCode) ==
    LET lo    == (hash % 65536) * 31 + charCode
        hi    == ((hash \div 65536) % 65536) * 31 + lo \div 65536
    IN  ToInt32(hi % 65536, lo % 65536)

RECURSIVE HashString(_, _)
HashString(hash, str) ==
    IF str = <<>> THEN hash
    ELSE HashString(HashStep(hash, Head(str)), Tail(str))

\* track.name + (track.artists[0]?.name || '')
EstimateString(t) ==
    TrackName(t) \o (IF TrackArtists(t) # <<>> THEN TrackArtists(t)[1] ELSE <<>>)

\* the estimate with the track id mixed into the hashed string
generateEstimatedFeaturesById(t) ==
    [source |-> "estimated", isEstimated |-> TRUE,
     value |-> Abs(HashString(0, EstimateString(t) \o TrackId(t)))]

\* generateEstimatedFeatures: seed = Math.abs(hash); every field of the result
\* is computed from Math.sin(seed + k) for a fixed k, so the seed stands for
\* the seven values
generateEstimatedFeatures(t) ==
    [source |-> "estimated", isEstimated |-> TRUE,
     value |-> Abs(HashString(0, EstimateString(t)))]

----------------------------------------------------------------------------
\* ---- App.tsx: pollSpotify

\* the setSpotifyState of the new-track case
pollSpotifyStore(prev, track, feats, progress, is_playing) ==
    [prev EXCEPT !.currentTrack = track, !.features = feats,
                 !.progress_ms = progress, !.isPlaying = is_playing]

\* "if (!features) features = generateEstimatedFeatures(track)"
FeaturesOrEstimate(feats, track) ==
    IF feats = NullFeatures THEN generateEstimatedFeatures(track) ELSE feats

\* pollSpotify after fetchCurrentTrack resolved with {track, progress_ms,
\* is_playing}, except the new-track case
pollSpotifyKnown(prev, track, progress, is_playing) ==
    IF track # 0
    THEN [prev EXCEPT !.progress_ms = progress, !.isPlaying = is_playing]
    ELSE IF prev.currentTrackKeyRef # NullKey
    THEN [prev EXCEPT !.currentTrackKeyRef = NullKey, !.currentTrack = 0,
                      !.features = NullFeatures, !.isPlaying = FALSE]
    ELSE prev

\* the track is not the one currentTrackKeyRef names
IsNewTrack(prev, track) == track # 0 /\ TrackKey(track) # prev.currentTrackKeyRef

\* the new track has an id: pollSpotify goes on to await fetchAudioFeatures
AwaitsFeatures(prev, track) == IsNewTrack(prev, track) /\ TrackId(track) # <<>>

\* pollSpotify from the resolution of fetchCurrentTrack to its next await or
\* its end.  A new track with an id: currentTrackKeyRef is written and the
\* audio-features request goes out, nothing is stored yet.  A new track
\* without an id is stored at once with the estimate.
pollSpotifyApply(prev, track, progress, is_playing) ==
    IF AwaitsFeatures(prev, track)
    THEN [prev EXCEPT !.currentTrackKeyRef = TrackKey(track),
                      !.featureFetches = @ \cup
                          {[track |-> track, progress_ms |-> progress,
                            is_playing |-> is_playing]}]
    ELSE IF IsNewTrack(prev, track)
    THEN pollSpotifyStore([prev EXCEPT !.currentTrackKeyRef = TrackKey(track)],
             track, generateEstimatedFeatures(track), progress, is_playing)
    ELSE pollSpotifyKnown(prev, track, progress, is_playing)

----------------------------------------------------------------------------
\* MediaPlayer.tsx: the YouTube interval callback's duration
TimerDuration(v) ==
    IF YoutubeTrackDurationMs(v) # 0 THEN YoutubeTrackDurationMs(v)
    ELSE DefaultYoutubeDuration

\* the player renders its buttons unless YOUTUBE is active with no track
PlayerVisible == ~(activeSource = "YOUTUBE" /\ youtubeTrack = 0)

----------------------------------------------------------------------------
\* Actions of App.tsx

others == <<mounted, now, sceneVars, visualVars>>

\* pollSpotify up to its first await, called with the token and the
\* activeSource of render r: one more currently-playing request is pending
\* unless it returns at once
pollSpotifyCall(r, s) ==
    IF r.token /\ r.activeSource # "YOUTUBE"
    THEN [s EXCEPT !.pollsInFlight = @ + 1] ELSE s

\* the OAuth redirect came back and setToken stored the access token; the
\* poll effect of that commit sets the 3 s interval and calls pollSpotify
Connect ==
    /\ mounted /\ ~token
    /\ LET s1 == [Cur EXCEPT !.token = TRUE]
       IN  Step("connect", "none", pollSpotifyCall(s1, s1))
    /\ UNCHANGED others

\* the 3 s interval calls pollSpotify, whatever is still pending
PollStart ==
    /\ mounted /\ token /\ activeSource # "YOUTUBE"
    /\ pollsInFlight < MaxPollsInFlight
    /\ Step("pollStart", "none", pollSpotifyCall(Cur, Cur))
    /\ UNCHANGED others

\* fetchCurrentTrack of a pending pollSpotify resolves with a track out of
\* tracks, or with nothing
PollResolve(tracks) ==
    /\ mounted /\ pollsInFlight > 0
    /\ \E response \in FetchResponses(tracks) :
        LET res  == fetchCurrentTrack(response)
            prev == [Cur EXCEPT !.pollsInFlight = @ - 1]
        IN  /\ AwaitsFeatures(Cur, res[1])
                => Cardinality(featureFetches) < MaxFeatureFetches
            /\ Step(IF AwaitsFeatures(Cur, res[1]) THEN "pollAwait"
                    ELSE IF FetchFailed(response) THEN "pollFailed"
                    ELSE "poll",
                    "none", pollSpotifyApply(prev, res[1], res[2], res[3]))
    /\ UNCHANGED others

\* the poll of the session the player is driven by
PollReturn == PollResolve(SpotifyTracks)

\* the poll over the whole catalogue
PollFetched == PollResolve(CatalogTracks)

\* the poll while nothing is playing on Spotify: a 204, a body without item,
\* or a failure
PollIdle == PollResolve({})

\* pollSpotify from the resolution of fetchAudioFeatures to its setSpotifyState
FeaturesReturn ==
    /\ mounted
    /\ \E f \in featureFetches, response \in AudioFeaturesResponses :
        LET feats == fetchAudioFeatures(response, TrackId(f.track))
        IN  Step(IF feats = NullFeatures THEN "featuresNone" ELSE "features",
                 "none",
                 pollSpotifyStore([Cur EXCEPT !.featureFetches = @ \ {f}],
                                  f.track, FeaturesOrEstimate(feats, f.track),
                                  f.progress_ms, f.is_playing))
    /\ UNCHANGED others

AddToQueue ==
    /\ mounted
    /\ \E type \in Platforms, isArray \in BOOLEAN, n \in 1..MaxQueue :
       \E items \in [1..n -> TracksOf(type)] :
        /\ Len(queue) + n <= MaxQueue
        /\ type = "SPOTIFY" => ~isArray
        /\ ~isArray => n = 1
        /\ Step("addToQueue", "none", handleAddToQueue(Cur, type, items, isArray))
    /\ UNCHANGED others

\* handlePlayNow with the Spotify PLAY button on show whatever the source
PlayNowAnySource ==
    /\ mounted
    /\ \/ \E item \in YoutubeTracks :
            Step("playNow", "none", handlePlayNowYoutube(Cur, item))
       \/ \E item \in SpotifyTracks :
            Step("playNow", IF token THEN "playUri" ELSE "none", Cur)
    /\ UNCHANGED others

\* handlePlayNow, as Sidebar calls it: for a video when resolveYoutubeUrl
\* answers (whatever the source is by then), for a Spotify track from the PLAY
\* button of the search results, rendered only while SPOTIFY is active
PlayNow ==
    /\ mounted
    /\ \/ \E item \in YoutubeTracks :
            Step("playNow", "none", handlePlayNowYoutube(Cur, item))
       \/ /\ activeSource = "SPOTIFY"
          /\ \E item \in SpotifyTracks :
                Step("playNow", IF token THEN "playUri" ELSE "none", Cur)
    /\ UNCHANGED others

\* handlePlatformChange; pollSpotify depends on activeSource, so a commit that
\* changes it runs the poll effect again: a new interval, and pollSpotify called
PlatformChange ==
    /\ mounted
    /\ \E platform \in Platforms :
        LET s1 == handlePlatformChange(Cur, platform)
            polls == platform # activeSource /\ platform = "SPOTIFY" /\ token
        IN  /\ polls => pollsInFlight < MaxPollsInFlight
            /\ Step("platformChange",
                    IF platform = "YOUTUBE" /\ activeSource = "SPOTIFY" /\ token
                    THEN "pause" ELSE "none",
                    IF platform # activeSource THEN pollSpotifyCall(s1, s1)
                    ELSE s1)
    /\ UNCHANGED others

\* handleSeek(percentage) of render r; percentage in hundredths
handleSeek(r, prev, pct) ==
    IF r.activeSource = "SPOTIFY" /\ r.token /\ r.currentTrack # 0
    THEN [prev EXCEPT !.progress_ms =
                          (SpotifyDurationMs(r.currentTrack) * pct) \div 100]
    ELSE prev

\* the seekToPosition it sends
handleSeekCommand(r) ==
    IF r.activeSource = "SPOTIFY" /\ r.token /\ r.currentTrack # 0
    THEN "seek" ELSE "none"

\* the render whose handleSeek the sketch calls: the sketch is created once
\* (its effect has no dependencies) and p.mousePressed keeps the onSeek prop of
\* the first render, with the token and the spotifyState of that render
FirstRender == [Cur EXCEPT !.token = FALSE, !.activeSource = "SPOTIFY",
                           !.currentTrack = 0, !.youtubeTrack = 0]

\* a click on the ring: percentage = angle / TWO_PI, from 0 up to but not 1
SeekPercents == {0, 50}

Seek ==
    /\ mounted
    /\ \E pct \in SeekPercents :
        Step("seek", handleSeekCommand(FirstRender),
             handleSeek(FirstRender, Cur, pct))
    /\ UNCHANGED others

----------------------------------------------------------------------------
\* Actions of MediaPlayer.tsx

\* The end of the track: the updater passed to setLocalProgress calls
\* onYoutubeEnd, setIsYoutubePlaying(false) and setOptimisticIsPlaying(false)
\* and returns 0.  React runs the updater either at once, in the callback,
\* and then all four updates are rendered in one commit; or when it renders
\* MediaPlayer, and then the player commits with its own three updates and
\* the props as they were, its effects run, and the App's update follows in
\* the next commit.
YoutubeEndOutcomes ==
    LET ended == [Cur EXCEPT !.isYoutubePlaying = FALSE,
                             !.optimisticIsPlaying = FALSE,
                             !.localProgress = 0]
        eager == handleYoutubeEnd(ended)
        late  == handleYoutubeEnd(EffectsPass(ended, FALSE))
    IN  {Commit(eager, eager.isPlaying # isPlaying),
         Commit(late, late.isPlaying # isPlaying)}

\* the callback of the interval held in progressIntervalRef; it closes over
\* the youtubeTrack of the render that started it
YoutubeTimerFire ==
    /\ mounted /\ progressIntervalRef # 0
    /\ LET duration == TimerDuration(progressIntervalRef)
           newProgress == localProgress + TickMs
       IN  IF duration > 0 /\ newProgress >= duration
           THEN \E s1 \in YoutubeEndOutcomes :
                    /\ Install(s1) /\ op' = "youtubeTimerEnd" /\ cmd' = "none"
           ELSE Step("youtubeTimer", "none",
                     [Cur EXCEPT !.localProgress = newProgress])
    /\ UNCHANGED others

\* the callback of the Spotify progress interval
SpotifyTimerFire ==
    /\ mounted /\ spotifyInterval
    /\ Step("spotifyTimer", "none",
            [Cur EXCEPT !.localProgress = localProgress + TickMs])
    /\ UNCHANGED others

handlePlayPause ==
    /\ mounted /\ PlayerVisible
    /\ LET newState == ~optimisticIsPlaying
       IN  Step("playPause",
                IF activeSource = "SPOTIFY" /\ token
                THEN (IF newState THEN "play" ELSE "pause") ELSE "none",
                [Cur EXCEPT !.optimisticIsPlaying = newState,
                            !.lastInteractionTime = now])
    /\ UNCHANGED others

handleNext ==
    /\ mounted /\ PlayerVisible
    /\ IF activeSource = "SPOTIFY" /\ token
       THEN Step("next", "next", [Cur EXCEPT !.localProgress = 0])
       ELSE IF activeSource = "YOUTUBE"
       THEN Step("next", "none", [handleYoutubeEnd(Cur) EXCEPT !.localProgress = 0])
       ELSE Step("next", "none", [Cur EXCEPT !.localProgress = 0])
    /\ UNCHANGED others

handlePrev ==
    /\ mounted /\ PlayerVisible
    /\ IF activeSource = "SPOTIFY" /\ token
       THEN Step("prev", "previous", Cur)
       ELSE IF activeSource = "YOUTUBE"
       THEN Step("prev", "none", [Cur EXCEPT !.localProgress = 0])
       ELSE Step("prev", "none", Cur)
    /\ UNCHANGED others

\* the page goes away: the cleanups of the interval effects run
Unmount ==
    /\ mounted
    /\ mounted' = FALSE
    /\ Install([Cur EXCEPT !.progressIntervalRef = 0, !.spotifyInterval = FALSE])
    /\ op' = "unmount" /\ cmd' = "none"
    /\ UNCHANGED <<now, sceneVars, visualVars>>

\* one second of wall-clock time passes
AdvanceTime ==
    /\ now < PageLoadTime + MaxNow * TickMs
    /\ now' = now + TickMs
    /\ UNCHANGED <<appVars, playerVars, sceneVars, visualVars, op, cmd>>

----------------------------------------------------------------------------
\* The Scene sketch that blends smoothProgress toward the progressMs prop

\* p.lerp(start, stop, amt) with amt = num/den, rounded down to a whole ms
Lerp(start, stop, num, den) == start + ((stop - start) * num) \div den

\* milliseconds between two draws (p.millis() - lastTime); 60 fps is 16.7 ms
FrameMs == {10, 20}

\* the props the App passes down
SceneDurationMs == 4 * TickMs
SceneProgressMs == {p \in 0..SceneDurationMs : p % TickMs = 0}

\* "2. Progress & Rhythm Logic" of p.draw: the new smoothProgress
ProgressLogic(state, smooth, frameMs) ==
    IF state.isPlaying
    THEN LET expectedProgress == state.progressMs
             diff == expectedProgress - smooth
         IN  IF Abs(diff) > SnapThresholdMs
             THEN expectedProgress
             ELSE Lerp(smooth + frameMs, expectedProgress, 1, 10)
    ELSE smooth + frameMs \div 10

\* the effect that keeps stateRef.current up to date with the props
UpdateProps ==
    /\ sketch # "Scene.tsx"
    /\ \E playing \in BOOLEAN, progress \in SceneProgressMs,
          duration \in {0, SceneDurationMs} :
        /\ duration = 0 => progress = 0
        /\ stateRef' = [isPlaying |-> playing, progressMs |-> progress,
                        durationMs |-> duration]
    /\ op' = "props"
    /\ UNCHANGED <<appVars, playerVars, smoothProgress, prevSmooth, visualVars,
                   now, cmd>>

----------------------------------------------------------------------------
\* Numbers of the visual side are fixed-point: Unit stands for 1.0
Unit == 10000

Max(a, b) == IF a > b THEN a ELSE b
Min(a, b) == IF a < b THEN a ELSE b

\* Math.pow(x, 4)
Pow4(x) ==
    LET Square(v) == LET hi == v \div 100
                         lo == v % 100
                     IN  hi * hi + (200 * hi * lo + lo * lo) \div Unit
    IN  Square(Square(IF x < 0 THEN -x ELSE x))

\* Naturals too large for one integer: four limbs in base 10^6, least first
Limb == 1000000
BigOf(n) == <<n % Limb, n \div Limb, 0, 0>>
BigZero == BigOf(0)
BigCarry(l) ==
    LET v2 == l[2] + l[1] \div Limb
        v3 == l[3] + v2 \div Limb
        v4 == l[4] + v3 \div Limb
    IN  <<l[1] % Limb, v2 % Limb, v3 % Limb, v4>>
\* a * k, for k up to 2000
BigTimes(a, k) == BigCarry(<<a[1] * k, a[2] * k, a[3] * k, a[4] * k>>)
BigPlus(a, b) ==
    BigCarry(<<a[1] + b[1], a[2] + b[2], a[3] + b[3], a[4] + b[4]>>)
BigLess(a, b) ==
    \/ a[4] < b[4]
    \/ a[4] = b[4] /\ a[3] < b[3]
    \/ a[4] = b[4] /\ a[3] = b[3] /\ a[2] < b[2]
    \/ a[4] = b[4] /\ a[3] = b[3] /\ a[2] = b[2] /\ a[1] < b[1]
\* a - b, for b <= a
BigMinus(a, b) ==
    LET d1 == a[1] - b[1]
        d2 == a[2] - b[2] - (IF d1 < 0 THEN 1 ELSE 0)
        d3 == a[3] - b[3] - (IF d2 < 0 THEN 1 ELSE 0)
        d4 == a[4] - b[4] - (IF d3 < 0 THEN 1 ELSE 0)
    IN  <<d1 % Limb, d2 % Limb, d3 % Limb, d4>>
\* floor(a / k), for k up to 2000
BigOver(a, k) ==
    LET v3 == (a[4] % k) * Limb + a[3]
        v2 == (v3 % k) * Limb + a[2]
        v1 == (v2 % k) * Limb + a[1]
    IN  <<v1 \div k, v2 \div k, v3 \div k, a[4] \div k>>
BigToInt(a) == a[1] + a[2] * Limb
\* a * 2^n, rounded down: ten bits at a time, then one
RECURSIVE BigShiftBy(_)
BigShiftBy(s) ==
    IF s.n = 0 THEN s.a
    ELSE IF s.n >= 10 THEN BigShiftBy([a |-> BigTimes(s.a, 1024), n |-> s.n - 10])
    ELSE IF s.n > 0 THEN BigShiftBy([a |-> BigTimes(s.a, 2), n |-> s.n - 1])
    ELSE IF s.n <= -10 THEN BigShiftBy([a |-> BigOver(s.a, 1024), n |-> s.n + 10])
    ELSE BigShiftBy([a |-> BigOver(s.a, 2), n |-> s.n + 1])
BigShift(a, n) == BigShiftBy([a |-> a, n |-> n])
\* a mod b: the multiples b * 2^j are taken off a, largest first
RECURSIVE BigTop(_)
BigTop(s) ==
    IF BigLess(s.a, BigTimes(s.c, 2)) THEN s
    ELSE BigTop([s EXCEPT !.c = BigTimes(@, 2)])
RECURSIVE BigReduce(_)
BigReduce(s) ==
    LET a1 == IF BigLess(s.a, s.c) THEN s.a ELSE BigMinus(s.a, s.c)
    IN  IF s.c = s.b THEN a1
        ELSE BigReduce([s EXCEPT !.a = a1, !.c = BigOver(@, 2)])
BigMod(a, b) ==
    IF BigLess(a, b) THEN a ELSE BigReduce(BigTop([a |-> a, b |-> b, c |-> b]))

\* The Numbers of JavaScript (IEEE-754 binary64), positive or zero: the value
\* is m * 2^e.  A quotient is rounded to 53 bits, so that a progress on a
\* whole beat can come out just under the whole number of beats
DoubleOf(n) == [m |-> BigOf(n), e |-> 0]
TwoTo52 == <<370496, 599627, 4503, 0>>
\* the multiples 0 * b .. 15 * b
Multiples(b) ==
    <<BigZero, b, BigTimes(b, 2), BigTimes(b, 3), BigTimes(b, 4),
      BigTimes(b, 5), BigTimes(b, 6), BigTimes(b, 7), BigTimes(b, 8),
      BigTimes(b, 9), BigTimes(b, 10), BigTimes(b, 11), BigTimes(b, 12),
      BigTimes(b, 13), BigTimes(b, 14), BigTimes(b, 15)>>
\* how many times the divisor goes into r, up to 15 times
DigitOf(r, multiples) ==
    Cardinality({k \in 2..16 : ~BigLess(r, multiples[k])})
\* the next four bits of the quotient
QuotientNibble(st) ==
    LET r16   == BigTimes(st.r, 16)
        digit == DigitOf(r16, st.ones)
    IN  [st EXCEPT !.q = BigPlus(BigTimes(@, 16), BigOf(digit)),
                   !.r = BigMinus(r16, st.ones[digit + 1])]
\* the quotient of the mantissas, eight bits at a time until it has 53
RECURSIVE QuotientDigits(_)
QuotientDigits(st) ==
    IF ~BigLess(st.q, TwoTo52) THEN st
    ELSE LET r256 == BigTimes(st.r, 256)
             high == DigitOf(r256, st.sixteens)
             r1   == BigMinus(r256, st.sixteens[high + 1])
             low  == DigitOf(r1, st.ones)
         IN  QuotientDigits(
                [st EXCEPT !.q = BigPlus(BigTimes(@, 256), BigOf(16 * high + low)),
                           !.r = BigMinus(r1, st.ones[low + 1])])
\* round to nearest, ties to even
RoundToEven(st, e) ==
    LET r2 == BigTimes(st.r, 2)
        up == BigLess(st.ones[2], r2) \/ (r2 = st.ones[2] /\ st.q[1] % 2 = 1)
    IN  [m |-> IF up THEN BigPlus(st.q, BigOf(1)) ELSE st.q, e |-> e]
DivRound(al) ==
    RoundToEven(QuotientDigits(QuotientNibble(
                    [q |-> BigOf(1), r |-> BigMinus(al.mx, al.my),
                     ones |-> Multiples(al.my),
                     sixteens |-> Multiples(BigTimes(al.my, 16))])),
                al.e - 52)
\* the mantissas scaled by powers of two until my <= mx < 2 * my
RECURSIVE DivAlign(_)
DivAlign(al) ==
    IF BigLess(BigTimes(al.mx, 1024), al.my)
    THEN DivAlign([al EXCEPT !.mx = BigTimes(@, 1024), !.e = @ - 10])
    ELSE IF BigLess(al.mx, al.my)
    THEN DivAlign([al EXCEPT !.mx = BigTimes(@, 2), !.e = @ - 1])
    ELSE IF ~BigLess(al.mx, BigTimes(al.my, 2048))
    THEN DivAlign([al EXCEPT !.my = BigTimes(@, 1024), !.e = @ + 10])
    ELSE IF ~BigLess(al.mx, BigTimes(al.my, 2))
    THEN DivAlign([al EXCEPT !.my = BigTimes(@, 2), !.e = @ + 1])
    ELSE al
\* x / y, for y > 0
DoubleDiv(x, y) ==
    LET al == [mx |-> x.m, my |-> y.m, e |-> x.e - y.e]
    IN  IF al.mx = BigZero THEN x ELSE DivRound(DivAlign(al))
\* x % y, for y > 0: exact
DoubleMod(x, y) ==
    LET sc == [e |-> IF x.e < y.e THEN x.e ELSE y.e, mx |-> x.m, my |-> y.m]
    IN  [m |-> BigMod(BigShift(sc.mx, x.e - sc.e), BigShift(sc.my, y.e - sc.e)),
         e |-> sc.e]
\* Math.floor
DoubleFloor(d) == BigToInt(BigShift(d.m, d.e))
\* the value in ten-thousandths, to the nearest
DoubleRound(d) ==
    LET x == BigTimes(BigTimes(d.m, 100), 100)
    IN  IF d.e >= 0 THEN BigToInt(BigShift(x, d.e))
        ELSE IF d.e < -70 THEN 0
        ELSE (BigToInt(BigShift(x, d.e + 1)) + 1) \div 2

\* the Scene variants: part_004 blends its progress and interpolates the
\* mood, part_003 follows the progress prop and derives the kick from the
\* beat phase, Scene.tsx is the sketch the current App mounts
SketchVariants == {"part_004", "part_003", "Scene.tsx"}

\* App.tsx INITIAL_MOOD
INITIAL_MOOD == [energy |-> 5000, valence |-> 3000, euphoria |-> 4000,
                 cognition |-> 6000]

\* the props the parent passes to part_003 and part_004: no track, or one of
\* three tracks with its mood and tempo, playing or paused, at a progress on
\* or off the beat; 60000 / 168 is not a whole number of ms
SceneTrackProps ==
    {[mood |-> [energy |-> 3000, valence |-> 2000, euphoria |-> 6000,
                cognition |-> 1000], tempo |-> 120],
     [mood |-> [energy |-> 10000, valence |-> 7000, euphoria |-> 10000,
                cognition |-> 2000], tempo |-> 300],
     [mood |-> [energy |-> 3000, valence |-> 2000, euphoria |-> 6000,
                cognition |-> 1000], tempo |-> 168]}

SceneBeatProgressMs == {0, 600, 2500, 3000}

SceneProps ==
    {[isPlaying |-> FALSE, progressMs |-> 0, durationMs |-> 0,
      mood |-> INITIAL_MOOD, tempo |-> 0]}
    \cup {[isPlaying |-> playing, progressMs |-> progress,
           durationMs |-> SceneDurationMs, mood |-> t.mood, tempo |-> t.tempo] :
            playing \in BOOLEAN, progress \in SceneBeatProgressMs,
            t \in SceneTrackProps}

\* Math.sin of the clock, for the idle animations
Sines == {-Unit, 0, Unit}

\* state.tempo || 120
TempoOr120(t) == IF t = 0 THEN 120 ELSE t

\* the effect that keeps stateRef.current up to date, with all the props
UpdateSceneProps ==
    /\ sketch # "Scene.tsx"
    /\ \E props \in SceneProps :
        /\ stateRef' = [isPlaying |-> props.isPlaying,
                        progressMs |-> props.progressMs,
                        durationMs |-> props.durationMs]
        /\ mood' = props.mood
        /\ tempo' = props.tempo
    /\ op' = "sceneProps"
    /\ UNCHANGED <<appVars, playerVars, smoothProgress, prevSmooth, sketch,
                   frameCount, blend, phase, live, input, demoVars, micVars, now, cmd>>

----------------------------------------------------------------------------
\* part_003: p.draw

\* baseColor is what the last draw painted with: nothing yet
InitPhase == [smoothProgressMs |-> 0, lastPropProgressMs |-> 0, kick |-> 0,
              baseColor |-> <<0, 0, 0>>]

\* the kick of the total beats, with neither the phase taken nor the
\* clamp at zero: Math.pow(1 - totalBeats, 4)
KickUnwrapped(bpm, progressMs) ==
    LET secondsPerBeat == DoubleDiv(DoubleOf(60), DoubleOf(bpm))
        totalBeats     == DoubleDiv(DoubleDiv(DoubleOf(progressMs), DoubleOf(1000)),
                                    secondsPerBeat)
    IN  Pow4(Unit - DoubleRound(totalBeats))

\* "BEAT LOGIC", isPlaying: secondsPerBeat = 60 / (tempo || 120),
\* totalBeats = (smoothProgressMs / 1000) / secondsPerBeat,
\* currentBeatPhase = totalBeats % 1,
\* kick = Math.pow(Math.max(0, 1 - currentBeatPhase), 4)
Kick(bpm, progressMs) ==
    LET secondsPerBeat   == DoubleDiv(DoubleOf(60), DoubleOf(bpm))
        totalBeats       == DoubleDiv(DoubleDiv(DoubleOf(progressMs), DoubleOf(1000)),
                                      secondsPerBeat)
        currentBeatPhase == DoubleRound(DoubleMod(totalBeats, DoubleOf(1)))
    IN  Pow4(Max(0, Unit - currentBeatPhase))

\* part_003 getThemeColor: the HSL colour of an energy and a valence
getThemeColor(energy, valence) ==
    IF energy > 8000 /\ valence < 4000 THEN <<0, 100, 50>>
    ELSE IF valence > 7000 THEN <<300, 100, 60>>
    ELSE IF energy < 4000 THEN <<180, 80, 50>>
    ELSE IF energy > 8000 THEN <<45, 100, 50>>
    ELSE <<200, 60, 60>>

\* "SMOOTH PROGRESS LOGIC", "BEAT LOGIC" and the colour: the sketch after
\* one draw
DrawPhaseLogic(state, m, bpm, ph, deltaTime, sine) ==
    LET followed == IF state.progressMs # ph.lastPropProgressMs
                    THEN state.progressMs
                    ELSE IF state.isPlaying THEN ph.smoothProgressMs + deltaTime
                    ELSE ph.smoothProgressMs
        clamped  == IF followed > state.durationMs THEN state.durationMs
                    ELSE followed
    IN  [smoothProgressMs   |-> clamped,
         lastPropProgressMs |-> state.progressMs,
         kick |-> IF state.isPlaying THEN Kick(TempoOr120(bpm), clamped)
                  ELSE (sine * 2) \div 10,
         baseColor |-> getThemeColor(m.energy, m.valence)]

DrawPhase ==
    /\ sketch = "part_003"
    /\ frameCount < MaxFrames
    /\ \E deltaTime \in FrameMs, sine \in Sines :
        phase' = DrawPhaseLogic(stateRef, mood, tempo, phase, deltaTime, sine)
    /\ frameCount' = frameCount + 1
    /\ op' = "drawPhase"
    /\ UNCHANGED <<appVars, playerVars, sceneVars, sketch, mood, tempo, blend,
                   live, input, demoVars, micVars, now, cmd>>

----------------------------------------------------------------------------
\* part_004: p.draw, all of it

\* the "breathing" level of the energy while paused: 0.2
IdleEnergy == 2000

InitBlend == [curEnergy |-> 5000, curValence |-> 5000, curEuphoria |-> 5000,
              curCognition |-> 5000, beatImpulse |-> 0, lastBeatIndex |-> 0]

\* the interpolation with the pause jumping straight to the idle level
MoodLogicJump(state, m, b) ==
    [b EXCEPT !.curEnergy    = IF state.isPlaying
                               THEN Lerp(@, m.energy, 5, 100) ELSE IdleEnergy,
              !.curValence   = Lerp(@, m.valence, 5, 100),
              !.curEuphoria  = Lerp(@, m.euphoria, 5, 100),
              !.curCognition = Lerp(@, m.cognition, 5, 100)]

\* "1. Interpolate Mood Values": lerpSpeed = 0.05
MoodLogic(state, m, b) ==
    LET targetEnergy == IF state.isPlaying THEN m.energy ELSE IdleEnergy
    IN  [b EXCEPT !.curEnergy    = Lerp(@, targetEnergy, 5, 100),
                  !.curValence   = Lerp(@, m.valence, 5, 100),
                  !.curEuphoria  = Lerp(@, m.euphoria, 5, 100),
                  !.curCognition = Lerp(@, m.cognition, 5, 100)]

\* "Beat Detection Logic": bpm = state.tempo || 120, msPerBeat = 60000 / bpm,
\* beatIndex = Math.floor(smoothProgress / msPerBeat), as Numbers: the
\* quotient of a progress on a whole beat can fall under the whole number
BeatIndex(bpm, smooth) ==
    LET msPerBeat == DoubleDiv(DoubleOf(60000), DoubleOf(TempoOr120(bpm)))
    IN  DoubleFloor(DoubleDiv(DoubleOf(smooth), msPerBeat))

\* the impulse set to 1.0 on a new beat, then the decay by 8% and the cut-off
\* below 0.01
BeatLogic(state, bpm, smooth, b) ==
    LET beatIndex == BeatIndex(bpm, smooth)
        newBeat   == beatIndex > b.lastBeatIndex /\ state.isPlaying
        decayed   == ((IF newBeat THEN Unit ELSE b.beatImpulse) * 92) \div 100
    IN  [b EXCEPT !.beatImpulse   = IF decayed < Unit \div 100 THEN 0 ELSE decayed,
                  !.lastBeatIndex = IF newBeat THEN beatIndex ELSE @]

DrawFrame ==
    /\ sketch = "part_004"
    /\ frameCount < MaxFrames
    /\ \E frameMs \in FrameMs :
        LET smooth == ProgressLogic(stateRef, smoothProgress, frameMs)
        IN  /\ smoothProgress' = smooth
            /\ blend' = BeatLogic(stateRef, tempo, smooth,
                                  MoodLogic(stateRef, mood, blend))
    /\ prevSmooth' = smoothProgress
    /\ frameCount' = frameCount + 1
    /\ op' = "drawFrame"
    /\ UNCHANGED <<appVars, playerVars, stateRef, sketch, mood, tempo, phase,
                   live, input, demoVars, micVars, now, cmd>>

----------------------------------------------------------------------------
\* Scene.tsx: p.draw of the sketch the current App mounts

InitLive == [simulatedBeat |-> 0, smoothBass |-> 0, smoothMid |-> 0,
             smoothTreble |-> 0, hueOffset |-> 0, timeOffset |-> 0,
             cPrimary |-> [mode |-> "none", hex |-> "", h |-> 0, s |-> 0,
                           b |-> 0]]

\* the mid and treble levels of a frame without audio or features: 0.05
IdleLevel == 500

NoFeatures == [present |-> FALSE, energy |-> 0, valence |-> 0, tempo |-> 0]

\* audio features as Spotify reports or the App estimates them: energy and
\* valence in [0, 1], tempo in BPM
SceneFeatures == {[present |-> TRUE, energy |-> 3000, valence |-> 2000,
                   tempo |-> 120],
                  [present |-> TRUE, energy |-> 10000, valence |-> 6000,
                   tempo |-> 300],
                  [present |-> TRUE, energy |-> 10000, valence |-> 6000,
                   tempo |-> 130]}

\* audioManager.getAnalysis(): band averages divided by 255
Analyses == {[bass |-> 0, mid |-> 0, treble |-> 0],
             [bass |-> 10000, mid |-> 5000, treble |-> 2000]}

\* p.millis() at the draw
Millis == {0, 250, 400, 6000}

\* what a draw reads from stateRef.current, the analyser and the clock
NoInput == [isAudioActive |-> FALSE, analysis |-> [bass |-> 0, mid |-> 0,
                                                   treble |-> 0],
            activeSource |-> "SPOTIFY", isPlaying |-> FALSE,
            features |-> NoFeatures, progress_ms |-> 0, millis |-> 0,
            sine |-> 0]

LiveInputs ==
    {[NoInput EXCEPT !.isAudioActive = TRUE, !.analysis = a] : a \in Analyses}
    \cup {[NoInput EXCEPT !.isPlaying = TRUE, !.features = f,
                          !.progress_ms = progress, !.millis = ms] :
            f \in SceneFeatures, progress \in {0, 250}, ms \in Millis}
    \cup {[NoInput EXCEPT !.activeSource = src, !.isPlaying = (src = "YOUTUBE"),
                          !.sine = sn] :
            src \in {"SPOTIFY", "YOUTUBE"}, sn \in Sines}

\* App.tsx getHybridVisualConfig: the primaryColor, "" for undefined
getHybridVisualConfig(source, feats) ==
    IF source = "SPOTIFY" /\ feats.present
    THEN IF feats.energy > 8000 THEN "#ef4444"
         ELSE IF feats.valence > 8000 THEN "#eab308"
         ELSE IF feats.valence < 3000 THEN "#3b82f6"
         ELSE IF feats.energy > 5000 /\ feats.valence > 5000
              THEN "#ec4899"
         ELSE "#8b5cf6"
    ELSE IF source = "YOUTUBE" THEN "#FF0000"
    ELSE ""

\* (p.millis() % msPerBeat) / msPerBeat, in ten-thousandths
PhaseOfBeat(millis, msPerBeat) ==
    DoubleRound(DoubleDiv(DoubleMod(millis, msPerBeat), msPerBeat))

\* the bass, mid and treble levels of the frame and the new simulatedBeat
SceneLevels(in, lv) ==
    IF in.isAudioActive
    THEN [bass |-> in.analysis.bass, mid |-> in.analysis.mid,
          treble |-> in.analysis.treble, simulatedBeat |-> lv.simulatedBeat]
    ELSE IF in.isPlaying /\ in.features.present
    THEN LET bpm       == in.features.tempo
             energy    == in.features.energy
             bps       == DoubleDiv(DoubleOf(bpm), DoubleOf(60))
             msPerBeat == DoubleDiv(DoubleOf(1000), bps)
             beatPhase == PhaseOfBeat(DoubleOf(in.millis), msPerBeat)
             kick      == (Pow4(Unit - beatPhase) * energy) \div Unit
             beat      == Lerp(lv.simulatedBeat, kick, 2, 10)
         IN  [bass |-> 1000 + (beat * 6) \div 10,
              mid |-> 1000 + (energy * 2) \div 10,
              treble |-> 500 + energy \div 10,
              simulatedBeat |-> beat]
    ELSE LET idlePulse == (in.sine + Unit) \div 2
         IN  [bass |-> 1000 + (idlePulse * 5) \div 100, mid |-> IdleLevel,
              treble |-> IdleLevel, simulatedBeat |-> lv.simulatedBeat]

\* the sketch after one draw
SceneDrawLogic(in, lv) ==
    LET levels  == SceneLevels(in, lv)
        sBass   == Lerp(lv.smoothBass, levels.bass, 15, 100)
        sMid    == Lerp(lv.smoothMid, levels.mid, 10, 100)
        sTreble == Lerp(lv.smoothTreble, levels.treble, 10, 100)
        hue     == IF in.isAudioActive
                   THEN lv.hueOffset + 2000 + sBass * 3
                   ELSE lv.hueOffset
        config  == getHybridVisualConfig(in.activeSource, in.features)
    IN  [simulatedBeat |-> levels.simulatedBeat,
         smoothBass    |-> sBass,
         smoothMid     |-> sMid,
         smoothTreble  |-> sTreble,
         hueOffset     |-> hue,
         timeOffset    |-> lv.timeOffset + 100 + (sBass * 5) \div 100,
         cPrimary      |->
            IF in.isAudioActive
            THEN [mode |-> "HSB", hex |-> "", h |-> hue % (360 * Unit),
                  s |-> 50 * Unit + sMid * 50,
                  b |-> Min(80 * Unit + sBass * 20, 100 * Unit)]
            ELSE [mode |-> "RGB",
                  hex |-> IF config = "" THEN "#8b5cf6" ELSE config,
                  h |-> 0, s |-> 0, b |-> 0]]

SceneDraw ==
    /\ sketch = "Scene.tsx"
    /\ frameCount < MaxFrames
    /\ \E in \in LiveInputs :
        /\ input' = in
        /\ live' = SceneDrawLogic(in, live)
    /\ frameCount' = frameCount + 1
    /\ op' = "sceneDraw"
    /\ UNCHANGED <<appVars, playerVars, sceneVars, sketch, mood, tempo, blend,
                   phase, demoVars, micVars, now, cmd>>

----------------------------------------------------------------------------
\* The mood: Sidebar's sliders and presets (through handleMoodChange), and in
\* the earlier App the demo loop and the mood taken from the audio features

NullAudioFeatures ==
    [present |-> FALSE, energy |-> 0, valence |-> 0, danceability |-> 0,
     acousticness |-> 0, instrumentalness |-> 0, tempo |-> 0]

\* useState<SpotifyState> of the earlier App; currentTrack is the track id,
\* "" for null
InitSpotifyState ==
    [isConnected |-> FALSE, currentTrack |-> "", features |-> NullAudioFeatures,
     progress_ms |-> 0, isPlaying |-> FALSE]

\* Sidebar.tsx getPresetValues
getPresetValues(name) ==
    LET Preset(e, v, u, c) ==
            [energy |-> e, valence |-> v, euphoria |-> u, cognition |-> c]
    IN  CASE name = "HAPPY"       -> Preset(8000, 9000, 8000, 3000)
          [] name = "MELANCHOLIC" -> Preset(3000, 2000, 1000, 7000)
          [] name = "CALM"        -> Preset(2000, 6000, 3000, 5000)
          [] name = "ANXIOUS"     -> Preset(9000, 2000, 1000, 9000)
          [] name = "BITTERSWEET" -> Preset(5000, 4000, 3000, 8000)
          [] name = "DREAMY"      -> Preset(3000, 5000, 7000, 1000)
          [] name = "NOSTALGIC"   -> Preset(4000, 4000, 2000, 9000)
          [] name = "TENDER"      -> Preset(2000, 7000, 4000, 6000)
          [] name = "SLEEPY"      -> Preset(1000, 5000, 2000, 1000)
          [] name = "LAID-BACK"   -> Preset(4000, 6000, 5000, 4000)
          [] name = "PUMPED"      -> Preset(9000, 8000, 9000, 6000)
          [] name = "HYPER"       -> Preset(10000, 7000, 10000, 2000)
          [] name = "FOCUS"       -> Preset(5000, 5000, 2000, 10000)
          [] name = "BACKGROUND"  -> Preset(3000, 5000, 1000, 5000)
          [] name = "PARTY"       -> Preset(9000, 9000, 9000, 2000)
          [] name = "NIGHT DRIVE" -> Preset(6000, 5000, 6000, 4000)
          [] OTHER                -> Preset(5000, 5000, 5000, 5000)

\* the MOOD_PRESETS buttons pressed: the extremes of the table, and the
\* preset with cognition above 0.8 as well as high energy and low valence
PresetNames == {"HYPER", "SLEEPY", "FOCUS", "ANXIOUS"}

\* values of <input type="range" min="0" max="1" step="0.01">: the two ends
SliderValues == {0, 10000}

MoodKeys == {"energy", "valence", "euphoria", "cognition"}

\* Math.random(): in [0, 1)
Randoms == {0, 9999}

\* the six values Math.random() returns to one updateDemo, in call order:
\* all of them low or all of them high
DemoRandoms == {[i \in 1..6 |-> r] : r \in Randoms}

\* audio features as the Web API documents them: each of the five in [0, 1]
MoodFeatures ==
    {[present |-> TRUE, energy |-> 10000, valence |-> 0, danceability |-> 10000,
      acousticness |-> 10000, instrumentalness |-> 10000, tempo |-> 120],
     [present |-> TRUE, energy |-> 4000, valence |-> 9000, danceability |-> 5000,
      acousticness |-> 9000, instrumentalness |-> 8000, tempo |-> 90]}

\* the mood of the audio features with the two cognition terms added, not
\* averaged
featureMoodSum(f) ==
    [energy |-> f.energy, valence |-> f.valence, euphoria |-> f.danceability,
     cognition |-> f.acousticness + f.instrumentalness]

\* fetchData: the mood of the audio features
featureMood(f) ==
    [energy |-> f.energy, valence |-> f.valence, euphoria |-> f.danceability,
     cognition |-> (f.acousticness + f.instrumentalness) \div 2]

\* AudioReactiveBlob with the Metal row tried before the Glass row
MaterialOfMetalFirst(m) ==
    IF m.energy > 7500 /\ m.valence < 4000 THEN "METAL"
    ELSE IF m.cognition > 8000 THEN "GLASS"
    ELSE IF m.energy > 5000 /\ m.valence < 5000 THEN "ROCK"
    ELSE IF m.valence > 6000 /\ m.euphoria > 5000 THEN "ROMANCE"
    ELSE "LIQUID"

\* AudioReactiveBlob: the materialType of a mood
MaterialOf(m) ==
    IF m.cognition > 8000 THEN "GLASS"
    ELSE IF m.energy > 7500 /\ m.valence < 4000 THEN "METAL"
    ELSE IF m.energy > 5000 /\ m.valence < 5000 THEN "ROCK"
    ELSE IF m.valence > 6000 /\ m.euphoria > 5000 THEN "ROMANCE"
    ELSE "LIQUID"

\* types.ts VisualizerMaterial
VisualizerMaterial == {"LIQUID", "ROCK", "METAL", "ROMANCE", "GLASS"}

\* slider positions on and on either side of the thresholds of the materials
ThresholdSliderValues ==
    {3900, 4000, 4900, 5000, 5100, 6000, 6100, 7500, 7600, 8000, 8100}

\* what a change of the mood leaves alone; the re-render that follows it
\* recomputes the material of the blob
MoodUnchanged ==
    UNCHANGED <<appVars, playerVars, sceneVars, sketch, frameCount, tempo,
                blend, phase, live, input, micVars, now, cmd>>

\* Sidebar handleSliderChange -> App handleMoodChange, for slider positions
\* out of values
SliderChange(values) ==
    /\ \E key \in MoodKeys, val \in values :
        mood' = [mood EXCEPT ![key] = val]
    /\ materialType' = MaterialOf(mood')
    /\ op' = "slider"
    /\ UNCHANGED <<isDemoMode, spotifyState, fetches>>
    /\ MoodUnchanged

handleSliderChange == SliderChange(SliderValues)

\* the same slider moved around the thresholds of the materials
handleSliderThreshold == SliderChange(ThresholdSliderValues)

\* Sidebar handlePresetClick -> App handleMoodChange
handlePresetClick ==
    /\ \E presetName \in PresetNames : mood' = getPresetValues(presetName)
    /\ materialType' = MaterialOf(mood')
    /\ op' = "preset"
    /\ UNCHANGED <<isDemoMode, spotifyState, fetches>>
    /\ MoodUnchanged

\* updateDemo with the six values Math.random() returned, in call order
DemoUpdate(r) ==
    LET newEnergy    == 3000 + (r[1] * 7) \div 10
        newValence   == r[2]
        newEuphoria  == r[3]
        newCognition == r[4]
    IN  /\ mood' = [energy |-> newEnergy, valence |-> newValence,
                    euphoria |-> newEuphoria, cognition |-> newCognition]
        /\ spotifyState' =
            [isConnected |-> TRUE,
             currentTrack |-> "demo",
             features |-> [present |-> TRUE, energy |-> newEnergy,
                           valence |-> newValence,
                           danceability |-> newEuphoria,
                           acousticness |-> newCognition,
                           instrumentalness |-> newCognition,
                           tempo |-> 100 + (r[5] * 40) \div Unit],
             progress_ms |-> r[6] * 24,
             isPlaying |-> TRUE]

\* the interval of the demo loop fires
updateDemo ==
    /\ isDemoMode
    /\ \E r \in DemoRandoms : DemoUpdate(r)
    /\ materialType' = MaterialOf(mood')
    /\ op' = "demo"
    /\ UNCHANGED <<isDemoMode, fetches>>
    /\ MoodUnchanged

\* the fetchData calls in flight at most
MaxFetches == 2

\* a fetchData call that awaits fetchCurrentTrack: id is the
\* spotifyState.currentTrack?.id of the render its effect ran in
AwaitsTrack(id) ==
    [awaits |-> "track", id |-> id, progress_ms |-> 0, is_playing |-> FALSE]

\* a fetchData call that awaits fetchAudioFeatures, with the track, the
\* progress and the playing flag the first request answered
AwaitsAudioFeatures(res) ==
    [awaits |-> "features", id |-> res.track, progress_ms |-> res.progress_ms,
     is_playing |-> res.is_playing]

\* the "Spotify Polling" effect, run after a render in which the token,
\* currentTrack?.id or isDemoMode has changed: it returns at once without a
\* token or in the demo, and calls fetchData otherwise
SpotifyPolling(tok, demo, state, calls) ==
    IF tok /\ ~demo
    THEN calls (+) SetToBag({AwaitsTrack(state.currentTrack)})
    ELSE calls

\* the "Handle Spotify Auth Callback" effect: getAccessToken has answered
\* with a token
getAccessTokenReturn ==
    /\ ~token
    /\ token' = TRUE
    /\ spotifyState' = [spotifyState EXCEPT !.isConnected = TRUE]
    /\ fetches' = SpotifyPolling(TRUE, isDemoMode, spotifyState', fetches)
    /\ op' = "accessToken"
    /\ UNCHANGED <<activeSource, currentTrack, youtubeTrack, progress_ms,
                   isPlaying, queue, features, currentTrackKeyRef,
                   pollsInFlight, featureFetches, playerVars, sceneVars,
                   sketch, frameCount, mood, tempo, blend, phase, live, input,
                   isDemoMode, materialType, micVars, now, cmd>>

\* handleToggleDemo and the effects of the render that follows: switching the
\* demo on, the demo loop runs updateDemo at once; switching it off, the
\* polling effect calls fetchData
handleToggleDemo ==
    /\ IF isDemoMode
       THEN /\ token => BagCardinality(fetches) < MaxFetches
            /\ isDemoMode' = FALSE
            /\ spotifyState' = [isConnected |-> FALSE, currentTrack |-> "",
                                features |-> NullAudioFeatures,
                                progress_ms |-> 0, isPlaying |-> FALSE]
            /\ mood' = INITIAL_MOOD
            /\ fetches' = SpotifyPolling(token, FALSE, spotifyState', fetches)
       ELSE /\ isDemoMode' = TRUE
            /\ \E r \in DemoRandoms : DemoUpdate(r)
            /\ fetches' = fetches
    /\ materialType' = MaterialOf(mood')
    /\ op' = "toggleDemo"
    /\ MoodUnchanged

\* the interval of the polling effect fires: fetchData is called with the
\* currentTrack?.id of the render the effect ran in, which is the stored one
fetchData ==
    /\ token /\ ~isDemoMode
    /\ BagCardinality(fetches) < MaxFetches
    /\ fetches' = fetches (+) SetToBag({AwaitsTrack(spotifyState.currentTrack)})
    /\ op' = "fetchData"
    /\ UNCHANGED <<isDemoMode, spotifyState, mood, materialType>>
    /\ MoodUnchanged

\* what fetchCurrentTrack answers: no track, or a track and its progress
FetchCurrentTrackResponses ==
    {[track |-> "", progress_ms |-> 0, is_playing |-> FALSE]}
    \cup {[track |-> "t1", progress_ms |-> TickMs, is_playing |-> TRUE],
          [track |-> "t2", progress_ms |-> TickMs, is_playing |-> FALSE]}

\* fetchData after its first await: the answer is compared with the track
\* of the call's own render, and stored or followed by the second request
\* whatever has happened since the call
fetchCurrentTrackReturn ==
    /\ \E call \in BagToSet(fetches), res \in FetchCurrentTrackResponses :
        /\ call.awaits = "track"
        /\ IF res.track = ""
           THEN /\ spotifyState' = [spotifyState EXCEPT !.isPlaying = FALSE]
                /\ fetches' = fetches (-) SetToBag({call})
           ELSE IF res.track # call.id
           THEN /\ spotifyState' = spotifyState
                /\ fetches' = (fetches (-) SetToBag({call}))
                                (+) SetToBag({AwaitsAudioFeatures(res)})
           ELSE /\ spotifyState' =
                        [spotifyState EXCEPT !.progress_ms = res.progress_ms,
                                             !.isPlaying = res.is_playing]
                /\ fetches' = fetches (-) SetToBag({call})
    /\ op' = "trackAnswer"
    /\ UNCHANGED <<isDemoMode, mood, materialType>>
    /\ MoodUnchanged

\* fetchData after its second await: the track and its features, or null,
\* are stored and the features set the mood; a new currentTrack?.id runs the
\* polling effect again
fetchAudioFeaturesReturn ==
    /\ \E call \in BagToSet(fetches),
          f \in MoodFeatures \cup {NullAudioFeatures} :
        /\ call.awaits = "features"
        /\ spotifyState' = [spotifyState EXCEPT !.currentTrack = call.id,
                                                !.features = f,
                                                !.progress_ms = call.progress_ms,
                                                !.isPlaying = call.is_playing]
        /\ mood' = IF f.present THEN featureMood(f) ELSE mood
        /\ fetches' = IF call.id # spotifyState.currentTrack
                      THEN SpotifyPolling(token, isDemoMode, spotifyState',
                                          fetches (-) SetToBag({call}))
                      ELSE fetches (-) SetToBag({call})
    /\ materialType' = MaterialOf(mood')
    /\ op' = "featuresAnswer"
    /\ UNCHANGED isDemoMode
    /\ MoodUnchanged

----------------------------------------------------------------------------
\* The microphone: Sidebar handleAudioToggleClick and the AudioAnalyzer

\* what a microphone step leaves alone
MicUnchanged ==
    UNCHANGED <<appVars, playerVars, sceneVars, sketch, frameCount, mood,
                tempo, blend, phase, live, input, demoVars, now, cmd>>

\* AudioAnalyzer.stop: the tracks of this.stream are stopped and the field
\* cleared, the source disconnected and cleared
MicStop(live0, stream0) == IF stream0 # 0 THEN live0 \ {stream0} ELSE live0

\* the source node of an <audio> element, as against the streams 1, 2, ...
ElementSource == 0 - 1

\* AudioAnalyzer.ensureContext: a context once created is kept; without one
\* it is created when the window has an AudioContext class. The value is
\* both the field afterwards and what the method returns
EnsureContext(ctx, available) == ctx \/ available

\* the button of the Sidebar (its only caller passes no forceStart), with
\* isAudioActive as the last render had it: ON stops the analyzer and
\* reports false; OFF calls startMic, which stops what there is, returns
\* false when there is no audio context, and else awaits getUserMedia
handleAudioToggleClick ==
    /\ IF isAudioActive
       THEN /\ liveStreams' = MicStop(liveStreams, micStream)
            /\ micStream' = 0
            /\ micSource' = 0
            /\ isAudioActive' = FALSE
            /\ op' = "micOff"
            /\ UNCHANGED <<micRequests, micStarted, audioContext>>
       ELSE \E available \in BOOLEAN :
            LET ctx == EnsureContext(audioContext, available) IN
            /\ ctx => micStarted < MaxMicStarts
            /\ liveStreams' = MicStop(liveStreams, micStream)
            /\ micStream' = 0
            /\ micSource' = 0
            /\ audioContext' = ctx
            /\ micStarted' = IF ctx THEN micStarted + 1 ELSE micStarted
            /\ micRequests' = IF ctx THEN micRequests \cup {micStarted + 1}
                                     ELSE micRequests
            /\ op' = IF ctx THEN "micOn" ELSE "micNoContext"
            /\ UNCHANGED isAudioActive
    /\ MicUnchanged

\* AudioAnalyzer.connectMediaElement: stops what there is and, with an audio
\* context, takes the element's source node; when creating the node throws,
\* the source stays cleared
connectMediaElement ==
    /\ \E available \in BOOLEAN, connects \in BOOLEAN :
        LET ctx == EnsureContext(audioContext, available) IN
        /\ audioContext' = ctx
        /\ micSource' = IF ctx /\ connects THEN ElementSource ELSE 0
    /\ liveStreams' = MicStop(liveStreams, micStream)
    /\ micStream' = 0
    /\ op' = "connectMediaElement"
    /\ UNCHANGED <<isAudioActive, micRequests, micStarted>>
    /\ MicUnchanged

\* AudioAnalyzer.stop called on its own, outside the button: the stream and
\* the source are cleared, and nothing is reported to the App
stop ==
    /\ liveStreams' = MicStop(liveStreams, micStream)
    /\ micStream' = 0
    /\ micSource' = 0
    /\ op' = "stop"
    /\ UNCHANGED <<isAudioActive, micRequests, micStarted, audioContext>>
    /\ MicUnchanged

\* getUserMedia of a pending startMic resolves with a new stream: it is
\* stored and connected, startMic returns true and the click handler reports
\* the microphone active
MicGranted ==
    /\ \E r \in micRequests :
        /\ micRequests' = micRequests \ {r}
        /\ liveStreams' = liveStreams \cup {r}
        /\ micStream' = r
        /\ micSource' = r
    /\ isAudioActive' = TRUE
    /\ op' = "micGranted"
    /\ UNCHANGED <<micStarted, audioContext>>
    /\ MicUnchanged

\* getUserMedia rejects: startMic returns false and nothing is reported
MicDenied ==
    /\ \E r \in micRequests : micRequests' = micRequests \ {r}
    /\ op' = "micDenied"
    /\ UNCHANGED <<isAudioActive, micStream, micSource, liveStreams,
                   micStarted, audioContext>>
    /\ MicUnchanged

----------------------------------------------------------------------------
InitScene ==
    /\ stateRef = [isPlaying |-> FALSE, progressMs |-> 0, durationMs |-> 0]
    /\ smoothProgress = 0
    /\ prevSmooth = 0

InitVisual ==
    /\ frameCount = 0
    /\ mood = INITIAL_MOOD
    /\ tempo = 0
    /\ blend = InitBlend
    /\ phase = InitPhase
    /\ live = InitLive
    /\ input = NoInput
    /\ isDemoMode = FALSE
    /\ spotifyState = InitSpotifyState
    /\ fetches = EmptyBag
    /\ materialType = MaterialOf(INITIAL_MOOD)

InitMic ==
    /\ isAudioActive = FALSE
    /\ micStream = 0
    /\ micSource = 0
    /\ liveStreams = {}
    /\ micRequests = {}
    /\ micStarted = 0
    /\ audioContext = FALSE

InitApp ==
    /\ token = FALSE
    /\ activeSource = "SPOTIFY"
    /\ currentTrack = 0
    /\ youtubeTrack = 0
    /\ progress_ms = 0
    /\ isPlaying = FALSE
    /\ queue = <<>>
    /\ features = NullFeatures
    /\ featureFetches = {}
    /\ currentTrackKeyRef = NullKey
    /\ pollsInFlight = 0
    /\ mounted = TRUE
    /\ localProgress = 0
    /\ optimisticIsPlaying = FALSE
    /\ isYoutubePlaying = FALSE
    /\ lastInteractionTime = 0
    /\ progressIntervalRef = 0
    /\ spotifyInterval = FALSE
    /\ now = PageLoadTime
    /\ op = "init"
    /\ cmd = "none"

Init ==
    /\ InitApp
    /\ InitScene
    /\ InitVisual
    /\ InitMic
    /\ sketch = "part_004"

\* the same with any of the Scene variants mounted
InitAnySketch ==
    /\ InitApp
    /\ InitScene
    /\ InitVisual
    /\ InitMic
    /\ sketch \in SketchVariants

Next ==
    \/ Connect
    \/ PollStart
    \/ PollReturn
    \/ FeaturesReturn
    \/ AddToQueue
    \/ PlayNow
    \/ PlatformChange
    \/ Seek
    \/ YoutubeTimerFire
    \/ SpotifyTimerFire
    \/ handlePlayPause
    \/ handleNext
    \/ handlePrev
    \/ Unmount

Spec == Init /\ [][Next]_vars

\* the player, the queue and the source switch, with the session connected
\* or not and Spotify reporting nothing playing
NextPlayer ==
    \/ Connect
    \/ PollStart
    \/ PollIdle
    \/ AddToQueue
    \/ PlayNow
    \/ PlatformChange
    \/ Seek
    \/ YoutubeTimerFire
    \/ SpotifyTimerFire
    \/ handlePlayPause
    \/ handleNext
    \/ handlePrev
    \/ Unmount

SpecPlayer == Init /\ [][NextPlayer]_vars

\* the Spotify session with its tracks, and the switch to a video and back
NextSession ==
    \/ Connect
    \/ PollStart
    \/ PollReturn
    \/ FeaturesReturn
    \/ PlayNow
    \/ PlatformChange
    \/ YoutubeTimerFire
    \/ SpotifyTimerFire
    \/ handlePlayPause

SpecSession == Init /\ [][NextSession]_vars

\* the Spotify session alone, with the wall clock
NextGrace ==
    \/ Connect
    \/ PollStart
    \/ PollReturn
    \/ FeaturesReturn
    \/ SpotifyTimerFire
    \/ handlePlayPause
    \/ AdvanceTime

SpecGrace == Init /\ [][NextGrace]_vars

\* the Spotify poll with both of its awaits, over the whole catalogue
NextPoll ==
    \/ Connect
    \/ PollStart
    \/ PollFetched
    \/ FeaturesReturn

SpecPoll == Init /\ [][NextPoll]_vars

\* the sketch alone
NextScene ==
    \/ UpdateProps
    \/ DrawFrame

SpecScene == Init /\ [][NextScene]_vars

\* a frame-bounded run of whole draws, of any of the Scene variants
NextVisual ==
    \/ UpdateSceneProps
    \/ DrawFrame
    \/ DrawPhase
    \/ SceneDraw

SpecVisual == InitAnySketch /\ [][NextVisual]_vars

\* the mood alone: the sliders and presets, the demo loop and the features
NextMood ==
    \/ getAccessTokenReturn
    \/ handleSliderChange
    \/ handlePresetClick
    \/ handleToggleDemo
    \/ updateDemo
    \/ fetchData
    \/ fetchCurrentTrackReturn
    \/ fetchAudioFeaturesReturn

SpecMood == Init /\ [][NextMood]_vars

\* the microphone alone: the clicks and the permission requests
NextMic ==
    \/ handleAudioToggleClick
    \/ MicGranted
    \/ MicDenied
    \/ connectMediaElement
    \/ stop

SpecMic == Init /\ [][NextMic]_vars

\* the mood moved around the thresholds of the blob's materials
NextMaterial ==
    \/ handleSliderThreshold
    \/ handlePresetClick

SpecMaterial == Init /\ [][NextMaterial]_vars

\* every state is settled: running the effects again changes nothing
Settled == mounted => EffectsPass(Cur, FALSE) = Cur

\* MediaPlayer, SPOTIFY active: after every commit localProgress is within
\* the snap window of the stored progress_ms
LocalWithinSnapWindow ==
    (mounted /\ activeSource = "SPOTIFY") =>
        Abs(localProgress - progress_ms) <= SnapThresholdMs

\* the hidden iframe is rendered with an autoplay src
YoutubeEmbedPlaying ==
    activeSource = "YOUTUBE" /\ youtubeTrack # 0 /\ isYoutubePlaying

\* the duration the player shows for the active track:
\* currentTrack?.duration_ms, or youtubeTrack?.duration_ms || 180000
ActiveDurationMs ==
    IF activeSource = "SPOTIFY" THEN SpotifyDurationMs(currentTrack)
    ELSE IF YoutubeTrackDurationMs(youtubeTrack) # 0
    THEN YoutubeTrackDurationMs(youtubeTrack)
    ELSE DefaultYoutubeDuration

ActiveTrack == IF activeSource = "SPOTIFY" THEN currentTrack ELSE youtubeTrack

\* the YOUTUBE entries of a queue, in order
YoutubeItems(q) == SelectSeq(q, LAMBDA item : item.platform = "YOUTUBE")

\* the interval callback reports the end of the track that is active
YoutubeTrackEnds ==
    /\ op' = "youtubeTimerEnd"
    /\ activeSource = "YOUTUBE"
    /\ youtubeTrack # 0
    /\ progressIntervalRef = youtubeTrack

----------------------------------------------------------------------------
\* C1. While isPlaying is true and no new authoritative progress arrives,
\* the player's local progress never goes down from one tick of the 1 s
\* progress timer to the next.
C1_TicksNonDecreasing ==
    [][(op' = "spotifyTimer" /\ isPlaying /\ activeSource = "SPOTIFY")
          => localProgress' >= localProgress]_vars

\* C2. In every reachable state the local playback progress is at most the
\* duration of the active track.
C2_ProgressWithinDuration ==
    (mounted /\ ActiveTrack # 0) => localProgress <= ActiveDurationMs

\* C3. A draw that finds the progressMs prop more than 2000 ms away
\* from the smoothed progress sets the smoothed progress to the prop, playing
\* or not.
C3_SnapPlayingOrNot ==
    [][(op' = "drawFrame" /\ Abs(stateRef.progressMs - smoothProgress) > SnapThresholdMs)
          => smoothProgress' = stateRef.progressMs]_vars

\* C4. A draw that blends (the prop is within 2000 ms of the smoothed
\* progress, playback is playing) from a progress inside the track leaves the
\* smoothed progress inside the track: no overshoot beyond the duration.
C4_BlendWithinDuration ==
    (/\ op = "drawFrame"
     /\ stateRef.isPlaying
     /\ stateRef.durationMs > 0
     /\ prevSmooth <= stateRef.durationMs
     /\ Abs(stateRef.progressMs - prevSmooth) <= SnapThresholdMs)
        => smoothProgress <= stateRef.durationMs

\* C5. When the active YouTube track ends with exactly one YOUTUBE item in
\* the queue, that item leaves the queue and becomes the active track, with
\* isPlaying true and the local progress 0.
C5_EndDequeuesTheOnlyItem ==
    [][(YoutubeTrackEnds /\ Len(YoutubeItems(queue)) = 1)
          => /\ youtubeTrack' = YoutubeItems(queue)[1].id
             /\ YoutubeItems(queue') = <<>>
             /\ isPlaying'
             /\ localProgress' = 0]_vars

\* C6. When the active YouTube track ends with at least one YOUTUBE item in
\* the queue, the earliest-added YOUTUBE item becomes the active track and
\* the later ones stay queued in their order.
C6_EndDequeuesEarliest ==
    [][(YoutubeTrackEnds /\ YoutubeItems(queue) # <<>>)
          => /\ youtubeTrack' = Head(YoutubeItems(queue)).id
             /\ YoutubeItems(queue') = Tail(YoutubeItems(queue))]_vars

\* C7. Every change of the active source pauses the outgoing source: a
\* connected Spotify that is playing is sent the pause command, the YouTube
\* embed stops playing.
C7_SwitchPausesOutgoing ==
    [][activeSource' # activeSource
          => IF activeSource = "SPOTIFY"
             THEN ((token /\ isPlaying) => cmd' = "pause")
             ELSE ~YoutubeEmbedPlaying']_vars

\* C8. Whenever the active source changes or another YouTube track becomes
\* the active one, the stored progress_ms and the local progress are 0.
C8_ClockResetOnChange ==
    [][(\/ activeSource' # activeSource
        \/ (activeSource' = "YOUTUBE" /\ youtubeTrack' # youtubeTrack))
          => (progress_ms' = 0 /\ localProgress' = 0)]_vars

\* C9. The YouTube progress timer fires only while the player is mounted and
\* YOUTUBE is the active source.
C9_NoYoutubeTimerOffSource ==
    [][(op' = "youtubeTimer" \/ op' = "youtubeTimerEnd")
          => (mounted /\ activeSource = "YOUTUBE")]_vars

\* C10. A poll result that arrives within 2000 ms of a play/pause click
\* leaves the optimistic playing state as the click set it.
C10_GraceWindowPreserved ==
    [][(op' = "poll" /\ lastInteractionTime # 0
        /\ now - lastInteractionTime <= GraceWindowMs)
          => optimisticIsPlaying' = optimisticIsPlaying]_vars

\* C11. Once the grace window has elapsed after a play/pause click, a poll
\* that delivers a track leaves the displayed (optimistic) playing state equal
\* to the polled isPlaying, also when that value is the one stored before the
\* click (the command failed upstream).
C11_PollReconcilesAfterWindow ==
    [][(op' = "poll" /\ currentTrack' # 0 /\ activeSource = "SPOTIFY"
        /\ lastInteractionTime # 0
        /\ now - lastInteractionTime > GraceWindowMs)
          => optimisticIsPlaying' = isPlaying']_vars

\* C12. A poll whose request failed (it threw, or the status is not 2xx)
\* leaves the stored current track, features, progress and isPlaying as they
\* were.
C12_FailedPollChangesNothing ==
    [][op' = "pollFailed"
          => /\ currentTrack' = currentTrack
             /\ features' = features
             /\ progress_ms' = progress_ms
             /\ isPlaying' = isPlaying]_vars

\* C13. A poll that changes the stored progress_ms or isPlaying with the
\* values reported for the track that currentTrackKeyRef names leaves a state
\* whose stored current track is that track: clock and track come from one
\* poll result.
C13_ClockAndTrackFromOnePoll ==
    [][(op' = "poll" /\ currentTrackKeyRef' = currentTrackKeyRef
        /\ currentTrackKeyRef # NullKey
        /\ (progress_ms' # progress_ms \/ isPlaying' # isPlaying))
          => (currentTrack' # 0 /\ TrackKey(currentTrack') = currentTrackKeyRef')]_vars

\* title and first artist name of two tracks are the same
SameTitleAndArtist(t, u) ==
    /\ TrackName(t) = TrackName(u)
    /\ (TrackArtists(t) = <<>>) = (TrackArtists(u) = <<>>)
    /\ TrackArtists(t) # <<>> => TrackArtists(t)[1] = TrackArtists(u)[1]

\* C14. When a poll stores a new track whose features are unavailable (the
\* track has no id, or the features request returned nothing), the stored
\* features are not null, are flagged isEstimated, and are the estimate of
\* every track with the same title and first artist.
C14_EstimateFromTitleAndArtist ==
    [][(\/ op' = "featuresNone"
        \/ (op' = "poll" /\ currentTrackKeyRef' # currentTrackKeyRef
            /\ currentTrack' # 0 /\ TrackId(currentTrack') = <<>>))
          => /\ features' # NullFeatures
             /\ features'.isEstimated
             /\ \A t \in CatalogTracks :
                    SameTitleAndArtist(t, currentTrack')
                        => features' = generateEstimatedFeatures(t)]_vars

C14_Witness ==
    /\ op = "featuresNone"
    /\ currentTrack # 0
    /\ TrackId(currentTrack) # <<>>
    /\ features.isEstimated
    /\ features = generateEstimatedFeatures(3)

\* C15: in deterministic mode (a track playing, no live audio) the beat
\* impulse of every Scene variant lies in [0, 1], whatever the tempo up to
\* 300 BPM and whatever the progress or the clock: the kick of part_003, the
\* beatImpulse of part_004 and the simulatedBeat of Scene.tsx.
C15_ImpulseWithinUnit ==
    /\ (op = "drawPhase" /\ stateRef.isPlaying) => phase.kick \in 0..Unit
    /\ blend.beatImpulse \in 0..Unit
    /\ live.simulatedBeat \in 0..Unit

\* part_003 has drawn a playing frame at 300 BPM, between two beats
C15_Witness ==
    /\ op = "drawPhase"
    /\ stateRef.isPlaying
    /\ tempo = 300
    /\ phase.kick > 0
    /\ phase.kick < Unit

\* the impulse as C16 gives it, in exact arithmetic:
\* max(0, 1 - beatPhase)^4 with beatPhase = (progressMs / (60000/tempo)) mod 1
ImpulseOf(bpm, progressMs) ==
    LET beatPhase == (((progressMs * bpm) % 60000) + 3) \div 6
    IN  Pow4(Max(0, Unit - beatPhase))

\* C16: the deterministic impulse is max(0, 1 - beatPhase)^4 of the tempo and
\* the progress alone, with beatPhase = (progressMs / (60000/tempo)) mod 1: 1
\* at progress 0 and 0.0625 at 250 ms, at 120 BPM.  For the kick of part_003
\* and for the simulatedBeat of Scene.tsx after a playing draw.
C16_ImpulseFromTempoAndProgress ==
    /\ Kick(120, 0) = Unit
    /\ Kick(120, 250) = 625
    /\ (op = "drawPhase" /\ stateRef.isPlaying) =>
            phase.kick = ImpulseOf(TempoOr120(tempo), phase.smoothProgressMs)
    /\ (op = "sceneDraw" /\ ~input.isAudioActive /\ input.isPlaying
            /\ input.features.present) =>
            live.simulatedBeat = ImpulseOf(input.features.tempo, input.progress_ms)

\* Scene.tsx, "PROGRESS RING": the ring is drawn for a playing track
isTrackPlaying ==
    IF activeSource = "SPOTIFY" THEN isPlaying /\ currentTrack # 0
    ELSE isPlaying /\ youtubeTrack # 0

\* Scene.tsx: progressRatio = Math.min(progress / duration, 1.0), in
\* ten-thousandths; 0 / 0 is NaN and Math.min of NaN is NaN, a positive
\* progress over 0 is Infinity
progressRatio ==
    LET duration == IF activeSource = "SPOTIFY"
                    THEN SpotifyDurationMs(currentTrack)
                    ELSE IF YoutubeTrackDurationMs(youtubeTrack) # 0
                         THEN YoutubeTrackDurationMs(youtubeTrack)
                         ELSE 240000
        progress == progress_ms
    IN  IF duration = 0
        THEN IF progress = 0 THEN [kind |-> "NaN", value |-> 0]
             ELSE [kind |-> "number", value |-> Unit]
        ELSE [kind |-> "number",
              value |-> Min((progress * Unit) \div duration, Unit)]

\* MediaPlayer.tsx: progressPercent = duration ? (localProgress / duration)
\* * 100 : 0, in ten-thousandths of a percent
progressPercent ==
    LET duration == IF activeSource = "SPOTIFY"
                    THEN IF currentTrack # 0
                         THEN SpotifyDurationMs(currentTrack) ELSE 0
                    ELSE IF youtubeTrack # 0
                            /\ YoutubeTrackDurationMs(youtubeTrack) # 0
                         THEN YoutubeTrackDurationMs(youtubeTrack)
                         ELSE DefaultYoutubeDuration
    IN  IF duration # 0 THEN (localProgress * 100 * Unit) \div duration ELSE 0

\* C17: while the active track has a duration of 0, the progress bar of
\* MediaPlayer and the progress ring of Scene.tsx (drawn while the track is
\* playing) both report the number 0.
C17_ZeroDurationRatioZero ==
    (activeSource = "SPOTIFY" /\ currentTrack # 0
        /\ SpotifyDurationMs(currentTrack) = 0) =>
        /\ progressPercent = 0
        /\ isTrackPlaying => progressRatio = [kind |-> "number", value |-> 0]

\* a value moves from old to new toward floor by at most num/den of the
\* remaining distance (up to the rounding of one ten-thousandth), without
\* moving away from the floor and without crossing it
TowardBy(old, new, floor, num, den) ==
    /\ Abs(new - floor) <= Abs(old - floor)
    /\ (old - floor) * (new - floor) >= 0
    /\ (new - old) * (floor - old) >= 0
    /\ Abs(new - old) * den <= Abs(old - floor) * num + (den - 1)

\* a draw of Scene.tsx with neither live audio nor a playing track with
\* features: the idle branch
SceneIdle(in) == ~in.isAudioActive /\ ~(in.isPlaying /\ in.features.present)

\* C18 as stated: on every paused frame the effective visual energy (curEnergy
\* of part_004, the smoothed mid level of Scene.tsx) moves toward the idle
\* floor 0.2 by at most 0.05 of the remaining distance, monotonically and
\* without crossing it.
C18_EnergyTowardIdleFloor ==
    [][/\ (op' = "drawFrame" /\ ~stateRef.isPlaying) =>
            TowardBy(blend.curEnergy, blend'.curEnergy, IdleEnergy, 5, 100)
       /\ (op' = "sceneDraw" /\ SceneIdle(input')) =>
            TowardBy(live.smoothMid, live'.smoothMid, IdleEnergy, 5, 100)]_vars

\* C18, amended: on every paused frame the effective visual energy moves
\* toward its idle level by at most a fixed fraction of the remaining
\* distance, monotonically and without crossing it: curEnergy of part_004
\* toward 0.2 by 0.05; in Scene.tsx the smoothed mid and treble levels toward
\* 0.05 by 0.1 and the smoothed bass toward the idle pulse of the frame
\* (0.1 to 0.15) by 0.15.
C18_EnergyTowardOwnFloor ==
    [][/\ (op' = "drawFrame" /\ ~stateRef.isPlaying) =>
            TowardBy(blend.curEnergy, blend'.curEnergy, IdleEnergy, 5, 100)
       /\ (op' = "sceneDraw" /\ SceneIdle(input')) =>
            /\ TowardBy(live.smoothMid, live'.smoothMid, IdleLevel, 10, 100)
            /\ TowardBy(live.smoothTreble, live'.smoothTreble, IdleLevel,
                        10, 100)
            /\ TowardBy(live.smoothBass, live'.smoothBass,
                        SceneLevels(input', live).bass, 15, 100)]_vars

\* part_004 has drawn a paused frame after a playing one had raised curEnergy
\* above its initial 0.5, and curEnergy is still above the floor
C18_Witness ==
    /\ op = "drawFrame"
    /\ ~stateRef.isPlaying
    /\ blend.curEnergy > 5000
    /\ blend.curEnergy < 5250

\* Scene.tsx: what a draw paints with, of the sketch after that draw
VisualParams(lv) ==
    [cPrimary   |-> lv.cPrimary,
     expansion  |-> lv.smoothBass,
     volatility |-> 30 * Unit + lv.smoothMid * 100 + lv.smoothTreble * 150,
     timeOffset |-> lv.timeOffset]

\* C19: the visual parameters of a frame are a function of the inputs of that
\* frame, not of the frames drawn before: a draw gives the same primary
\* colour and parameters as the same draw (same props, same analysis, same
\* clock and animation time, same beat impulse and smoothed levels) of a
\* sketch whose hueOffset is still that of a new sketch; and the colour of
\* part_003 is getThemeColor of the mood of the frame.
C19_ParamsFromInputsAlone ==
    [][/\ op' = "sceneDraw" =>
            VisualParams(live') =
                VisualParams(SceneDrawLogic(input',
                    [live EXCEPT !.hueOffset = InitLive.hueOffset]))
       /\ op' = "drawPhase" =>
            phase'.baseColor = getThemeColor(mood.energy, mood.valence)]_vars

\* C20: whatever the sliders, presets, demo ticks and feature-derived updates
\* that came before, each of energy, valence, euphoria and cognition of the
\* mood is within [0, 1].
C20_MoodWithinUnit ==
    \A key \in MoodKeys : mood[key] \in 0..Unit

\* fetchData has taken the mood from audio features whose acousticness and
\* instrumentalness are both 1
C20_Witness ==
    /\ op = "featuresAnswer"
    /\ mood.cognition = Unit
    /\ mood.euphoria = Unit
    /\ spotifyState.features.acousticness = Unit
    /\ spotifyState.features.instrumentalness = Unit

\* the Spotify Web API playback commands
SpotifyPlaybackCommands == {"play", "pause", "next", "previous", "playUri"}

C22_FrozenWhileNotPlaying ==
    [][(/\ ~isPlaying /\ ~optimisticIsPlaying
        /\ \/ activeSource = "YOUTUBE"
                /\ op' \in {"youtubeTimer", "youtubeTimerEnd"}
           \/ activeSource = "SPOTIFY" /\ op' = "spotifyTimer") =>
        localProgress' = localProgress]_vars

\* C23: when the active YouTube track ends with no YOUTUBE item in the queue,
\* isPlaying becomes false, activeSource stays YOUTUBE, and the active track
\* and the queue stay as they were.
C23_EndWithNothingQueuedIdles ==
    [][(YoutubeTrackEnds /\ YoutubeItems(queue) = <<>>) =>
        /\ ~isPlaying'
        /\ activeSource' = "YOUTUBE"
        /\ youtubeTrack' = youtubeTrack
        /\ queue' = queue]_vars

\* a video has ended with only a Spotify item queued: it stays the active
\* track, paused, and the item stays queued
C23_Witness ==
    /\ op = "youtubeTimerEnd"
    /\ activeSource = "YOUTUBE"
    /\ youtubeTrack # 0
    /\ ~isPlaying
    /\ queue # <<>>
    /\ YoutubeItems(queue) = <<>>

\* Sidebar.tsx, "Telemetry Logic": the mood on display
displayMood(activePlatform, hasTrack, feats, currentMood) ==
    IF activePlatform = "YOUTUBE" THEN currentMood
    ELSE IF hasTrack /\ feats.present
    THEN [energy    |-> feats.energy,
          valence   |-> feats.valence,
          euphoria  |-> feats.danceability,
          cognition |-> Unit - feats.acousticness]
    ELSE currentMood

\* C24: the mood derived from a track's audio features is energy, valence,
\* danceability as euphoria and the mean of acousticness and instrumentalness
\* as cognition, both where the features of a newly stored track set the mood
\* and where Sidebar's telemetry displays the mood of the stored features.
C24_OneFeatureMapping ==
    [][/\ (op' = "featuresAnswer"
            /\ spotifyState'.currentTrack # spotifyState.currentTrack
            /\ spotifyState'.features.present) =>
                mood' = featureMood(spotifyState'.features)
       /\ (spotifyState'.currentTrack # "" /\ spotifyState'.features.present) =>
            displayMood("SPOTIFY", TRUE, spotifyState'.features, mood')
                = featureMood(spotifyState'.features)]_vars

\* C25: the material of the blob is a first-match-wins table over the mood:
\* cognition > 0.8 gives Glass whatever the rest; else energy > 0.75 and
\* valence < 0.4 gives Metal; else energy > 0.5 and valence < 0.5 gives Rock;
\* else valence > 0.6 and euphoria > 0.5 gives Romance; else Liquid.  Every
\* mood has exactly one material.
C25_MaterialDecisionTable ==
    LET glass   == mood.cognition > 8000
        metal   == mood.energy > 7500 /\ mood.valence < 4000
        rock    == mood.energy > 5000 /\ mood.valence < 5000
        romance == mood.valence > 6000 /\ mood.euphoria > 5000
    IN  /\ materialType \in VisualizerMaterial
        /\ glass => materialType = "GLASS"
        /\ (~glass /\ metal) => materialType = "METAL"
        /\ (~glass /\ ~metal /\ rock) => materialType = "ROCK"
        /\ (~glass /\ ~metal /\ ~rock /\ romance) => materialType = "ROMANCE"
        /\ (~glass /\ ~metal /\ ~rock /\ ~romance) => materialType = "LIQUID"

\* a mood that fills the Metal row too has been given Glass by a slider
C25_Witness ==
    /\ op = "slider"
    /\ mood.cognition = 8100
    /\ mood.energy = 7600
    /\ mood.valence = 3900
    /\ materialType = "GLASS"

\* C26: on every playing frame of part_004 in which the smoothed progress
\* enters a later beat than the one it was in, the beat impulse is set to its
\* peak (1.0, seen after the decay of the frame as 0.92), also when the
\* progress had jumped backward before.
C26_EveryBeatRetriggers ==
    [][(/\ op' = "drawFrame"
        /\ stateRef.isPlaying
        /\ BeatIndex(tempo, smoothProgress') > BeatIndex(tempo, smoothProgress))
        => blend'.beatImpulse = (Unit * 92) \div 100]_vars

\* C27: once the toggle is clicked off, no captured stream is left live
C27_OffLeavesNoLiveStream == op = "micOff" => liveStreams = {}

\* C28: an item that becomes the active track is not left pending in the
\* queue: a track-end that starts a queued video takes that entry out, and an
\* add-to-queue that starts the added video does not queue it as well
C28_ActivatedItemNotPending ==
    [][/\ (op' = "addToQueue" /\ youtubeTrack' # youtubeTrack)
            => queue' = queue
       /\ (YoutubeTrackEnds /\ youtubeTrack' # youtubeTrack)
            => Len(queue') = Len(queue) - 1]_vars

\* C29: with no poll left in flight, the stored currentTrack is the track
\* currentTrackKeyRef names, the one the most recent poll reported
C29_QuiescentTrackMatchesKey ==
    (pollsInFlight = 0 /\ featureFetches = {}) =>
        IF currentTrack = 0 THEN currentTrackKeyRef = NullKey
        ELSE currentTrackKeyRef = TrackKey(currentTrack)

\* C30: while YOUTUBE is the active source, a Spotify poll that resolves
\* leaves isPlaying and progress_ms as they are
C30_PollLeavesYoutubeAlone ==
    [][(activeSource = "YOUTUBE"
        /\ op' \in {"poll", "pollFailed", "features", "featuresNone"})
          => (isPlaying' = isPlaying /\ progress_ms' = progress_ms)]_vars

====
